---- MODULE Spec2Model ----
(***************************************************************************)
(* Order book and trade simulator of trade_simulator.py.                   *)
(*                                                                         *)
(* Numbers are fixed-point: prices and quantities are integers counting    *)
(* tenths (float("100") is 1000, float("0.1") is 1), costs are their       *)
(* products (hundredths), and quotients are exact fractions <<num, den>>.  *)
(* Binary floating-point rounding is not modelled.                         *)
(***************************************************************************)
EXTENDS Integers, Sequences, FiniteSets, TLC

\* ------------------------------------------------------------------ bounds
\* Longest list of levels (bids and asks together) one update carries.
MaxEntries == 3
\* Largest quantity a simulation is asked for, in tenths.
MaxQty == 4
\* Largest resting size of a level of a book a simulation starts from, in tenths.
MaxSize == 2

\* ------------------------------------------------------------- feed inputs
\* The string that is no number.
BadStr == "x"

\* float(): defined on the numeric strings, ValueError on any other string.
FloatOf ==
    ("0" :> 0) @@ ("0.1" :> 1) @@ ("0.2" :> 2) @@ ("100" :> 1000) @@ ("101" :> 1010)

IsFloat(s) == s \in DOMAIN FloatOf

\* The levels [price_str, size_str] an update may carry: replacements and
\* deletions at two prices, a level at price zero, an unparseable price and
\* an unparseable size.
Entries ==
    { <<"100", "0.1">>, <<"100", "0.2">>, <<"100", "0">>, <<"101", "0.1">>,
      <<"0", "0.1">>, <<BadStr, "0.1">>, <<"101", BadStr>> }

\* The data objects of an update: a "bids" list and an "asks" list.
Datas ==
    UNION {{[bids |-> b, asks |-> a] :
                b \in [1..k -> Entries],
                a \in UNION {[1..j -> Entries] : j \in 0..(MaxEntries - k)}} :
           k \in 0..MaxEntries}

\* A message of the feed: its "data" list, empty when the message has no
\* "data" key (the subscription acknowledgement).  A books5 push carries one
\* data object.
Messages == {<<>>} \cup {<<d>> : d \in Datas}

\* ------------------------------------------------------------ dict helpers
DictDel(d, k) == [x \in (DOMAIN d) \ {k} |-> d[x]]

\* A plausible slip: += on the defaulting mapping instead of assignment.
DictAdd(d, k, v) ==
    [x \in (DOMAIN d) \cup {k} |-> IF x = k THEN (IF k \in DOMAIN d THEN d[k] ELSE 0) + v ELSE d[x]]

DictSet(d, k, v) == [x \in (DOMAIN d) \cup {k} |-> IF x = k THEN v ELSE d[x]]

EmptyDict == [x \in {} |-> 0]

\* A plausible slip: reading the levels pops the best one off the mapping.
AfterItemsPop(d) ==
    IF DOMAIN d = {} THEN d
    ELSE DictDel(d, CHOOSE k \in DOMAIN d : \A j \in DOMAIN d : k <= j)

\* dict.items() on the defaulting mapping: the mapping as the read leaves it.
AfterItems(d) == d

\* ---------------------------------------------------------------- OrderBook
\* A plausible slip: the size == 0 branch is missing and the zero is stored.
UpdateEntryKeepZero(bk, side, e) ==
    IF bk.raised THEN bk
    ELSE IF ~IsFloat(e[1]) \/ ~IsFloat(e[2]) THEN [bk EXCEPT !.raised = TRUE]
    ELSE IF side = "bids"
         THEN [bk EXCEPT !.bids = DictSet(bk.bids, FloatOf[e[1]], FloatOf[e[2]])]
         ELSE [bk EXCEPT !.asks = DictSet(bk.asks, FloatOf[e[1]], FloatOf[e[2]])]

\* A plausible slip: the size == 0 branch reads book_side[price], and the
\* defaulting mapping creates the missing key with 0.0.
UpdateEntryDefaulting(bk, side, e) ==
    IF bk.raised THEN bk
    ELSE IF ~IsFloat(e[1]) \/ ~IsFloat(e[2]) THEN [bk EXCEPT !.raised = TRUE]
    ELSE LET price == FloatOf[e[1]]
             size == FloatOf[e[2]]
             book_side == IF side = "bids" THEN bk.bids ELSE bk.asks
             new_side ==
                 IF size = 0
                 THEN IF price \in DOMAIN book_side
                      THEN DictDel(book_side, price)
                      ELSE DictSet(book_side, price, 0)
                 ELSE DictSet(book_side, price, size)
         IN  IF side = "bids"
             THEN [bk EXCEPT !.bids = new_side]
             ELSE [bk EXCEPT !.asks = new_side]

\* The body of the inner loop of update for one entry of one side.  bk is the
\* book with the flag `raised` (a ValueError has left update).
UpdateEntry(bk, side, e) ==
    IF bk.raised THEN bk
    ELSE IF ~IsFloat(e[1]) \/ ~IsFloat(e[2]) THEN [bk EXCEPT !.raised = TRUE]
    ELSE LET price == FloatOf[e[1]]
             size == FloatOf[e[2]]
             book_side == IF side = "bids" THEN bk.bids ELSE bk.asks
             new_side ==
                 IF size = 0
                 THEN IF price \in DOMAIN book_side
                      THEN DictDel(book_side, price)
                      ELSE book_side
                 ELSE DictSet(book_side, price, size)
         IN  IF side = "bids"
             THEN [bk EXCEPT !.bids = new_side]
             ELSE [bk EXCEPT !.asks = new_side]

RECURSIVE UpdateSide(_, _, _)
UpdateSide(bk, side, entries) ==
    IF entries = <<>> THEN bk
    ELSE UpdateSide(UpdateEntry(bk, side, Head(entries)), side, Tail(entries))

\* A plausible slip: a side the data names is cleared first, as for a snapshot.
update_snapshot(bk, data) ==
    LET b0 == IF data.bids = <<>> THEN bk ELSE [bk EXCEPT !.bids = EmptyDict]
        b1 == UpdateSide(b0, "bids", data.bids)
        b2 == IF data.asks = <<>> \/ b1.raised THEN b1 ELSE [b1 EXCEPT !.asks = EmptyDict]
    IN  UpdateSide(b2, "asks", data.asks)

\* OrderBook.update: the bids list, then the asks list.
update(bk, data) ==
    UpdateSide(UpdateSide(bk, "bids", data.bids), "asks", data.asks)

RECURSIVE SortedKeys(_, _)
SortedKeys(S, reverse) ==
    IF S = {} THEN <<>>
    ELSE LET k == CHOOSE x \in S : \A y \in S : IF reverse THEN x >= y ELSE x <= y
         IN  <<k>> \o SortedKeys(S \ {k}, reverse)

\* sorted(d.items(), key=price, reverse=reverse): a list of (price, size).
SortedItems(d, reverse) ==
    LET keys == SortedKeys(DOMAIN d, reverse)
    IN  [i \in 1..Len(keys) |-> <<keys[i], d[keys[i]]>>]

\* A plausible slip: reverse=True is missing.
get_sorted_bids_ascending(b) == SortedItems(b, FALSE)

get_sorted_bids(b) == SortedItems(b, TRUE)

\* A plausible slip: reverse=True on the ask view as well.
get_sorted_asks_descending(a) == SortedItems(a, TRUE)

get_sorted_asks(a) == SortedItems(a, FALSE)

\* ----------------------------------------------------------------- numbers
Abs(n) == IF n < 0 THEN -n ELSE n

RECURSIVE GCD(_, _)
GCD(a, b) == IF b = 0 THEN a ELSE GCD(b, a % b)

\* The quotient n / d (d # 0) as a fraction in lowest terms, denominator > 0.
Frac(n, d) ==
    LET g == GCD(Abs(n), Abs(d))
        sgn == IF d < 0 THEN -1 ELSE 1
    IN  <<sgn * (n \div g), sgn * (d \div g)>>

Zero == <<0, 1>>

\* The fraction f minus the integer p.
FracMinus(f, p) == Frac(f[1] - p * f[2], f[2])

\* TAKER_FEE_RATE = 0.0006, and a second rate a caller may construct with.
TAKER_FEE_RATE == <<6, 10000>>

FeeRates == {TAKER_FEE_RATE, <<1, 1000>>}

\* ------------------------------------------------------------ TradeSimulator
\* A plausible slip: the level's size is not taken into account.
TradeQtyUncapped(remaining_qty, available) == remaining_qty

\* trade_qty = min(remaining_qty, available)
TradeQty(remaining_qty, available) ==
    IF remaining_qty <= available THEN remaining_qty ELSE available

\* A plausible slip: remaining_qty -= trade_qty is missing.
RECURSIVE WalkNoDecrement(_, _, _)
WalkNoDecrement(book_side, i, st) ==
    IF i > Len(book_side) THEN st
    ELSE LET price == book_side[i][1]
             available == book_side[i][2]
             trade_qty == TradeQty(st.remaining_qty, available)
             st2 == [remaining_qty |-> st.remaining_qty,
                     total_cost |-> st.total_cost + trade_qty * price,
                     executed_qty |-> st.executed_qty + trade_qty]
         IN  IF st2.remaining_qty <= 0 THEN st2 ELSE WalkNoDecrement(book_side, i + 1, st2)

\* The for loop of _simulate_trade from level i on; st holds remaining_qty,
\* total_cost and executed_qty.
RECURSIVE Walk(_, _, _)
Walk(book_side, i, st) ==
    IF i > Len(book_side) THEN st
    ELSE LET price == book_side[i][1]
             available == book_side[i][2]
             trade_qty == TradeQty(st.remaining_qty, available)
             st2 == [remaining_qty |-> st.remaining_qty - trade_qty,
                     total_cost |-> st.total_cost + trade_qty * price,
                     executed_qty |-> st.executed_qty + trade_qty]
         IN  IF st2.remaining_qty <= 0 THEN st2 ELSE Walk(book_side, i + 1, st2)

\* A plausible slip: the reference price is read before the guard on
\* executed_qty, so an empty view is indexed.
SlippageEager(book_side, is_buy, avg_price, executed_qty) ==
    IF book_side = <<>> THEN [raised |-> TRUE, value |-> Zero]
    ELSE IF executed_qty > 0
         THEN [raised |-> FALSE,
               value |-> FracMinus(avg_price, IF is_buy THEN book_side[1][1]
                                               ELSE book_side[Len(book_side)][1])]
         ELSE [raised |-> FALSE, value |-> Zero]

\* A plausible slip: the subtraction the other way round.
SlippageBestMinusAvg(book_side, is_buy, avg_price, executed_qty) ==
    IF executed_qty > 0
    THEN IF book_side = <<>>
         THEN [raised |-> TRUE, value |-> Zero]
         ELSE LET v == FracMinus(avg_price, IF is_buy THEN book_side[1][1]
                                             ELSE book_side[Len(book_side)][1])
              IN  [raised |-> FALSE, value |-> <<-v[1], v[2]>>]
    ELSE [raised |-> FALSE, value |-> Zero]

\* slippage = avg_price - (book_side[0][0] if is_buy else book_side[-1][0])
\*            if executed_qty > 0 else 0.0
\* Indexing an empty list raises IndexError.
Slippage(book_side, is_buy, avg_price, executed_qty) ==
    IF executed_qty > 0
    THEN IF book_side = <<>>
         THEN [raised |-> TRUE, value |-> Zero]
         ELSE [raised |-> FALSE,
               value |-> FracMinus(avg_price, IF is_buy THEN book_side[1][1]
                                               ELSE book_side[Len(book_side)][1])]
    ELSE [raised |-> FALSE, value |-> Zero]

\* The report of a call that has not been made.
NoResult ==
    [outcome |-> "none", is_buy |-> FALSE, quantity |-> 0,
     executed_quantity |-> 0, average_price |-> Zero, total_cost |-> 0,
     slippage |-> Zero, fee |-> Zero, remaining_quantity |-> 0]

\* A plausible slip: the module constant instead of self.taker_fee_rate.
simulate_trade_default_fee(b, a, rate, quantity, is_buy) ==
    LET book_side == IF is_buy THEN get_sorted_asks(a) ELSE get_sorted_bids(b)
        st == Walk(book_side, 1,
                   [remaining_qty |-> quantity, total_cost |-> 0, executed_qty |-> 0])
        avg_price == IF st.executed_qty = 0 THEN Zero
                     ELSE Frac(st.total_cost, st.executed_qty)
        slip == Slippage(book_side, is_buy, avg_price, st.executed_qty)
        fee == Frac(st.total_cost * TAKER_FEE_RATE[1], TAKER_FEE_RATE[2])
    IN  IF slip.raised
        THEN [NoResult EXCEPT !.outcome = "IndexError",
                              !.is_buy = is_buy, !.quantity = quantity]
        ELSE [outcome |-> "returned", is_buy |-> is_buy, quantity |-> quantity,
              executed_quantity |-> st.executed_qty, average_price |-> avg_price,
              total_cost |-> st.total_cost, slippage |-> slip.value, fee |-> fee,
              remaining_quantity |-> st.remaining_qty]

\* TradeSimulator._simulate_trade on the book (b, a) with fee rate `rate`.
\* outcome is "returned" with the dict of the return statement, or the
\* exception that left the call.  is_buy and quantity repeat the arguments.
simulate_trade(b, a, rate, quantity, is_buy) ==
    LET book_side == IF is_buy THEN get_sorted_asks(a) ELSE get_sorted_bids(b)
        st == Walk(book_side, 1,
                   [remaining_qty |-> quantity, total_cost |-> 0, executed_qty |-> 0])
        avg_price == IF st.executed_qty = 0 THEN Zero
                     ELSE Frac(st.total_cost, st.executed_qty)
        slip == Slippage(book_side, is_buy, avg_price, st.executed_qty)
        fee == Frac(st.total_cost * rate[1], rate[2])
    IN  IF slip.raised
        THEN [NoResult EXCEPT !.outcome = "IndexError",
                              !.is_buy = is_buy, !.quantity = quantity]
        ELSE [outcome |-> "returned", is_buy |-> is_buy, quantity |-> quantity,
              executed_quantity |-> st.executed_qty, average_price |-> avg_price,
              total_cost |-> st.total_cost, slippage |-> slip.value, fee |-> fee,
              remaining_quantity |-> st.remaining_qty]

\* ------------------------------------------------------------------- state
VARIABLES
    bids,            \* OrderBook.bids: price -> size
    asks,            \* OrderBook.asks: price -> size
    taker_fee_rate,  \* TradeSimulator.taker_fee_rate
    result,          \* what the last simulate_buy / simulate_sell call gave
    feed_task,       \* listen_orderbook: "running", or "failed" by an exception
    hist_bids,       \* history: price -> size of the last bid entry update applied
    hist_asks,       \* history: price -> size of the last ask entry update applied
    pre_bids,        \* history: bids as the last simulation call found them
    pre_asks,        \* history: asks as the last simulation call found them
    message_torn,    \* history: some message was applied in part only
    torn_read,       \* history: a simulation read a book with a message applied in part
    unapplied,       \* history: some received message has a well-formed level never applied
    upd_calls,       \* history: update calls made on the book drawn at the start (0..2)
    upd_data,        \* history: the data of the last of those calls
    upd_bids,        \* history: bids as that call found them
    upd_asks,        \* history: asks as that call found them
    upd_raised       \* history: that call ended in ValueError

vars ==
    <<bids, asks, taker_fee_rate, result, feed_task, hist_bids, hist_asks,
      pre_bids, pre_asks, message_torn, torn_read, unapplied,
      upd_calls, upd_data, upd_bids, upd_asks, upd_raised>>

book_vars == <<bids, asks>>
sim_vars == <<result, pre_bids, pre_asks>>
hist_vars == <<hist_bids, hist_asks>>
task_vars == <<feed_task, message_torn, torn_read, unapplied>>
upd_vars == <<upd_calls, upd_data, upd_bids, upd_asks, upd_raised>>

\* ----------------------------------------------------------------- history
WellFormed(e) == IsFloat(e[1]) /\ IsFloat(e[2])

\* The entries of a list that update reaches: those before the first
\* malformed one.
RECURSIVE Reached(_)
Reached(entries) ==
    IF entries = <<>> THEN <<>>
    ELSE IF ~WellFormed(Head(entries)) THEN <<>>
    ELSE <<Head(entries)>> \o Reached(Tail(entries))

\* The history after the entries: each price they name maps to the size of
\* the last entry that names it.
Recorded(hist, entries) ==
    LET named == {FloatOf[entries[i][1]] : i \in DOMAIN entries}
        lastAt(p) == CHOOSE i \in DOMAIN entries :
                        /\ FloatOf[entries[i][1]] = p
                        /\ \A j \in DOMAIN entries : FloatOf[entries[j][1]] = p => j <= i
    IN  [p \in (DOMAIN hist) \cup named |->
            IF p \in named THEN FloatOf[entries[lastAt(p)][2]] ELSE hist[p]]

\* The book with every well-formed level of the data applied.
AllOfData(bk, data) ==
    update(bk, [bids |-> SelectSeq(data.bids, WellFormed),
                asks |-> SelectSeq(data.asks, WellFormed)])

RECURSIVE AllOfMessage(_, _)
AllOfMessage(bk, msg) ==
    IF msg = <<>> THEN bk ELSE AllOfMessage(AllOfData(bk, Head(msg)), Tail(msg))

\* ------------------------------------------------- OrderBook as a library
InitBook ==
    /\ bids = EmptyDict
    /\ asks = EmptyDict
    /\ taker_fee_rate = TAKER_FEE_RATE
    /\ result = NoResult
    /\ feed_task = "running"
    /\ hist_bids = EmptyDict
    /\ hist_asks = EmptyDict
    /\ pre_bids = EmptyDict
    /\ pre_asks = EmptyDict
    /\ message_torn = FALSE
    /\ torn_read = FALSE
    /\ unapplied = FALSE
    /\ upd_calls = 0
    /\ upd_data = [bids |-> <<>>, asks |-> <<>>]
    /\ upd_bids = EmptyDict
    /\ upd_asks = EmptyDict
    /\ upd_raised = FALSE

\* One call of OrderBook.update(data).
Update(data) ==
    \E bk \in {update([bids |-> bids, asks |-> asks, raised |-> FALSE], data)} :
    \E rb \in {Reached(data.bids)} :
    \E ra \in {IF Len(rb) = Len(data.bids) THEN Reached(data.asks) ELSE <<>>} :
        /\ bids' = bk.bids
        /\ asks' = bk.asks
        /\ hist_bids' = Recorded(hist_bids, rb)
        /\ hist_asks' = Recorded(hist_asks, ra)
        /\ UNCHANGED <<taker_fee_rate, sim_vars, task_vars, upd_vars>>

NextBook == \E data \in Datas : Update(data)

SpecBook == InitBook /\ [][NextBook]_vars

\* ------------------------------------- one update call, and the same again
\* The levels update can store: the well-formed entries of non-zero size.
StoredLevels ==
    {<<FloatOf[e[1]], FloatOf[e[2]]>> : e \in {x \in Entries : WellFormed(x) /\ FloatOf[x[2]] # 0}}

\* The sides a book can hold after any updates.
BookSides ==
    {d \in UNION {[S -> {l[2] : l \in StoredLevels}] : S \in SUBSET {l[1] : l \in StoredLevels}} :
        \A p \in DOMAIN d : <<p, d[p]>> \in StoredLevels}

InitStep ==
    /\ bids \in BookSides
    /\ asks \in BookSides
    /\ taker_fee_rate = TAKER_FEE_RATE
    /\ result = NoResult
    /\ feed_task = "running"
    /\ hist_bids = EmptyDict
    /\ hist_asks = EmptyDict
    /\ pre_bids = EmptyDict
    /\ pre_asks = EmptyDict
    /\ message_torn = FALSE
    /\ torn_read = FALSE
    /\ unapplied = FALSE
    /\ upd_calls = 0
    /\ upd_data = [bids |-> <<>>, asks |-> <<>>]
    /\ upd_bids = bids
    /\ upd_asks = asks
    /\ upd_raised = FALSE

\* OrderBook.update(data) on the book drawn at the start.
UpdateOnce(data) ==
    /\ upd_calls = 0
    /\ \E bk \in {update([bids |-> bids, asks |-> asks, raised |-> FALSE], data)} :
        /\ bids' = bk.bids
        /\ asks' = bk.asks
        /\ upd_raised' = bk.raised
    /\ upd_calls' = 1
    /\ upd_data' = data
    /\ upd_bids' = bids
    /\ upd_asks' = asks
    /\ UNCHANGED <<taker_fee_rate, sim_vars, hist_vars, task_vars>>

\* OrderBook.update with the same data a second time.
UpdateAgain ==
    /\ upd_calls = 1
    /\ \E bk \in {update([bids |-> bids, asks |-> asks, raised |-> FALSE], upd_data)} :
        /\ bids' = bk.bids
        /\ asks' = bk.asks
        /\ upd_raised' = bk.raised
    /\ upd_calls' = 2
    /\ upd_bids' = bids
    /\ upd_asks' = asks
    /\ UNCHANGED <<upd_data, taker_fee_rate, sim_vars, hist_vars, task_vars>>

NextStep ==
    \/ upd_calls = 0 /\ \E data \in Datas : UpdateOnce(data)
    \/ UpdateAgain

SpecStep == InitStep /\ [][NextStep]_vars

\* --------------------------------------------- TradeSimulator as a library
Quantities == (-1)..MaxQty

\* The prices of the books a simulation starts from: float of "0", "100", "101".
SimPrices == {0, 1000, 1010}

\* The sides a book can hold: any levels of positive size.
SimSides == UNION {[S -> 1..MaxSize] : S \in SUBSET SimPrices}

InitSim ==
    /\ bids \in SimSides
    /\ asks \in SimSides
    /\ taker_fee_rate \in FeeRates
    /\ result = NoResult
    /\ feed_task = "running"
    /\ hist_bids = EmptyDict
    /\ hist_asks = EmptyDict
    /\ pre_bids = bids
    /\ pre_asks = asks
    /\ message_torn = FALSE
    /\ torn_read = FALSE
    /\ unapplied = FALSE
    /\ upd_calls = 0
    /\ upd_data = [bids |-> <<>>, asks |-> <<>>]
    /\ upd_bids = EmptyDict
    /\ upd_asks = EmptyDict
    /\ upd_raised = FALSE

simulate_buy(quantity) ==
    /\ result' = simulate_trade(bids, asks, taker_fee_rate, quantity, TRUE)
    /\ asks' = AfterItems(asks)
    /\ pre_bids' = bids
    /\ pre_asks' = asks
    /\ UNCHANGED <<bids, taker_fee_rate, hist_vars, task_vars, upd_vars>>

simulate_sell(quantity) ==
    /\ result' = simulate_trade(bids, asks, taker_fee_rate, quantity, FALSE)
    /\ bids' = AfterItems(bids)
    /\ pre_bids' = bids
    /\ pre_asks' = asks
    /\ UNCHANGED <<asks, taker_fee_rate, hist_vars, task_vars, upd_vars>>

NextSim ==
    \/ \E quantity \in Quantities : simulate_buy(quantity)
    \/ \E quantity \in Quantities : simulate_sell(quantity)

SpecSim == InitSim /\ [][NextSim]_vars

\* ------------------------------------------------------------- the program
\* qty = 0.1 in main.
QTY == 1

\* The body of the loop `for data in msg["data"]: orderbook.update(data)`.
RECURSIVE ApplyMessage(_, _)
ApplyMessage(bk, msg) ==
    IF msg = <<>> \/ bk.raised THEN bk
    ELSE ApplyMessage(update(bk, Head(msg)), Tail(msg))

Init == InitBook

\* listen_orderbook: ws.recv() returns msg and the loop body runs to the next
\* await.  A ValueError leaving update ends the task.
Recv(msg) ==
    /\ feed_task = "running"
    /\ \E bk \in {ApplyMessage([bids |-> bids, asks |-> asks, raised |-> FALSE], msg)} :
       \E all \in {AllOfMessage([bids |-> bids, asks |-> asks, raised |-> FALSE], msg)} :
           /\ bids' = bk.bids
           /\ asks' = bk.asks
           /\ feed_task' = IF bk.raised THEN "failed" ELSE "running"
           /\ message_torn' =
                (message_torn
                 \/ (<<bk.bids, bk.asks>> # <<bids, asks>>
                     /\ <<bk.bids, bk.asks>> # <<all.bids, all.asks>>))
           /\ unapplied' = (unapplied \/ <<bk.bids, bk.asks>> # <<all.bids, all.asks>>)
    /\ UNCHANGED <<taker_fee_rate, sim_vars, hist_vars, torn_read, upd_vars>>

\* main: asyncio.sleep(5) returns and the loop body runs to the next await:
\* simulate_buy(qty), then simulate_sell(qty), then the prints.
Round ==
    LET buy_result == simulate_trade(bids, asks, taker_fee_rate, QTY, TRUE)
        asks1 == AfterItems(asks)
        sell_result == simulate_trade(bids, asks1, taker_fee_rate, QTY, FALSE)
    IN  /\ result' = sell_result
        /\ asks' = asks1
        /\ bids' = AfterItems(bids)
        /\ torn_read' = (torn_read \/ message_torn)
        /\ UNCHANGED <<taker_fee_rate, pre_bids, pre_asks, hist_vars, feed_task,
                       message_torn, unapplied, upd_vars>>

Next ==
    \/ \E msg \in Messages : Recv(msg)
    \/ Round

Spec == Init /\ [][Next]_vars

\* ================================================================ properties
\* What the statements below refer to, defined from the book alone.

Called == result.outcome # "none"

Returned == result.outcome = "returned"

\* The side a call consumes, as the call found it.
NeededSide == IF result.is_buy THEN pre_asks ELSE pre_bids

AllPositive(d) == \A p \in DOMAIN d : d[p] > 0

RECURSIVE SumSizes(_, _)
SumSizes(d, S) ==
    IF S = {} THEN 0
    ELSE LET p == CHOOSE x \in S : TRUE IN d[p] + SumSizes(d, S \ {p})

RECURSIVE SumNotional(_, _)
SumNotional(d, S) ==
    IF S = {} THEN 0
    ELSE LET p == CHOOSE x \in S : TRUE IN p * d[p] + SumNotional(d, S \ {p})

\* The prices of d that come before p in priority: lower for a buy, higher
\* for a sell.
Ahead(d, p, is_buy) == {x \in DOMAIN d : IF is_buy THEN x < p ELSE x > p}

\* What a walk in priority order consumes at price p of d for quantity q.
Consumed(d, p, q, is_buy) ==
    LET left == q - SumSizes(d, Ahead(d, p, is_buy))
    IN  IF left <= 0 THEN 0 ELSE IF left <= d[p] THEN left ELSE d[p]

RECURSIVE SumConsumed(_, _, _, _)
SumConsumed(d, S, q, is_buy) ==
    IF S = {} THEN 0
    ELSE LET p == CHOOSE x \in S : TRUE
         IN  Consumed(d, p, q, is_buy) + SumConsumed(d, S \ {p}, q, is_buy)

RECURSIVE SumConsumedNotional(_, _, _, _)
SumConsumedNotional(d, S, q, is_buy) ==
    IF S = {} THEN 0
    ELSE LET p == CHOOSE x \in S : TRUE
         IN  p * Consumed(d, p, q, is_buy) + SumConsumedNotional(d, S \ {p}, q, is_buy)

\* The best quote of a non-empty side: lowest ask, highest bid.
BestPrice(d, is_buy) ==
    CHOOSE p \in DOMAIN d : \A x \in DOMAIN d : IF is_buy THEN p <= x ELSE p >= x

\* C1: for a book of positive sizes and a quantity Q > 0, a buy consumes the
\* asks in ascending price order and a sell the bids in descending price
\* order, min(remaining, size) at each level until nothing remains or the
\* levels run out; executed_quantity is the sum of the consumed amounts and
\* total_cost the sum of price * consumed amount.
C1_WalkInPriorityOrder ==
    (Called /\ result.quantity > 0 /\ AllPositive(NeededSide)) =>
        /\ Returned
        /\ result.executed_quantity =
             SumConsumed(NeededSide, DOMAIN NeededSide, result.quantity, result.is_buy)
        /\ result.total_cost =
             SumConsumedNotional(NeededSide, DOMAIN NeededSide, result.quantity, result.is_buy)

\* Asks {100: 0.2, 101: 0.2}, buy 0.3: executed 0.3, total_cost 30.10, remaining 0.
C1_Witness ==
    /\ Returned /\ result.is_buy /\ result.quantity = 3
    /\ pre_asks = (1000 :> 2) @@ (1010 :> 2)
    /\ result.executed_quantity = 3
    /\ result.total_cost = 3010
    /\ result.remaining_quantity = 0

\* C2: whenever executed_quantity > 0 the slippage is average_price minus the
\* price of the first level of the sorted view of the consumed side (best ask
\* for a buy, best bid for a sell), and a sell's slippage is never positive.
\* Stated for the books whose prices are all positive.
C2_SlippageFromBestQuote ==
    (Called /\ Returned /\ result.executed_quantity > 0 /\ 0 \notin DOMAIN NeededSide) =>
        /\ result.slippage =
             FracMinus(result.average_price, BestPrice(NeededSide, result.is_buy))
        /\ (~result.is_buy => result.slippage[1] <= 0)

\* C3: simulate_buy and simulate_sell with quantity <= 0 end in a failure and
\* return no fill report.
C3_NonPositiveQuantityRejected ==
    (Called /\ result.quantity <= 0) => ~Returned

\* C4: after any sequence of updates with sizes >= 0, neither mapping and
\* neither sorted view holds a level of size <= 0, and no price occurs twice
\* on a side.
C4_NoEmptyLevel ==
    LET clean(view) ==
            /\ \A i \in DOMAIN view : view[i][2] > 0
            /\ \A i, j \in DOMAIN view : view[i][1] = view[j][1] => i = j
    IN  /\ AllPositive(bids)
        /\ AllPositive(asks)
        /\ clean(get_sorted_bids(bids))
        /\ clean(get_sorted_asks(asks))

\* A bid at 100 was deleted by a size of 0 while other levels rest.
C4_Witness ==
    /\ 1000 \in DOMAIN hist_bids /\ hist_bids[1000] = 0
    /\ 1000 \notin DOMAIN bids
    /\ 1010 \in DOMAIN bids
    /\ 1000 \in DOMAIN asks

\* C5: after any sequence of updates, a level is present with exactly the
\* size of the most recent entry for its side and price when that size is
\* not zero, and absent when that size was zero or no entry ever named it.
C5_ReplaceSemantics ==
    LET latest(d, hist) ==
            /\ DOMAIN d = {p \in DOMAIN hist : hist[p] # 0}
            /\ \A p \in DOMAIN d : d[p] = hist[p]
    IN  latest(bids, hist_bids) /\ latest(asks, hist_asks)

\* A bid last set to 0.2, a bid last given size 0, an ask never named.
C5_Witness ==
    /\ 1000 \in DOMAIN hist_bids /\ hist_bids[1000] = 2 /\ bids[1000] = 2
    /\ 1010 \in DOMAIN hist_asks /\ hist_asks[1010] = 1
    /\ 1000 \in DOMAIN hist_asks /\ hist_asks[1000] = 0 /\ 1000 \notin DOMAIN asks
    /\ 1010 \notin DOMAIN hist_bids

\* C6: an entry whose price is zero is ignored by update: no level is ever
\* inserted at that price.
C6_ZeroPriceIgnored ==
    0 \notin DOMAIN bids /\ 0 \notin DOMAIN asks

\* C7: a simulation leaves the bid and ask mappings as it found them.
C7_SimulateLeavesBook ==
    Called => (bids = pre_bids /\ asks = pre_asks)

\* A buy that filled from two ask levels.
C7_Witness ==
    /\ Returned /\ result.is_buy
    /\ result.executed_quantity = 3
    /\ Cardinality(DOMAIN pre_asks) = 2
    /\ asks = pre_asks

\* C8: no simulation reads a book in which a feed message is applied in part.
C8_NoTornRead == ~torn_read

\* C9: when Q > 0 exceeds the total size of the non-empty needed side, the
\* call returns executed_quantity = that total, remaining_quantity = Q - total
\* > 0 and total_cost = the sum of price * size over all levels.
C9_PartialFill ==
    LET total == SumSizes(NeededSide, DOMAIN NeededSide)
    IN  (Called /\ result.quantity > 0 /\ NeededSide # EmptyDict /\ AllPositive(NeededSide)
            /\ result.quantity > total) =>
            /\ Returned
            /\ result.executed_quantity = total
            /\ result.remaining_quantity = result.quantity - total
            /\ result.remaining_quantity > 0
            /\ result.total_cost = SumNotional(NeededSide, DOMAIN NeededSide)

\* Asks {100: 0.1}, buy 0.4: executed 0.1, remaining 0.3, total_cost 10.00.
C9_Witness ==
    /\ Returned /\ result.is_buy /\ result.quantity = 4
    /\ pre_asks = (1000 :> 1)
    /\ result.executed_quantity = 1
    /\ result.remaining_quantity = 3
    /\ result.total_cost = 1000

\* C10: a call with Q > 0 against an empty needed side returns, without
\* raising, executed_quantity, average_price, total_cost, slippage and fee of
\* zero and remaining_quantity = Q.
C10_EmptySide ==
    (Called /\ result.quantity > 0 /\ NeededSide = EmptyDict) =>
        /\ Returned
        /\ result.executed_quantity = 0
        /\ result.average_price = Zero
        /\ result.total_cost = 0
        /\ result.slippage = Zero
        /\ result.fee = Zero
        /\ result.remaining_quantity = result.quantity

\* A sell of 0.3 with no bids while asks rest.
C10_Witness ==
    /\ Returned /\ ~result.is_buy /\ result.quantity = 3
    /\ pre_bids = EmptyDict
    /\ pre_asks # EmptyDict
    /\ result.remaining_quantity = 3

\* What one update call names and leaves, defined from its data alone.

\* The prices the entries name.
Named(entries) ==
    {FloatOf[entries[i][1]] : i \in {j \in DOMAIN entries : IsFloat(entries[j][1])}}

\* The size resting at price p of d, 0 when there is no level.
Level(d, p) == IF p \in DOMAIN d THEN d[p] ELSE 0

\* Every entry is well formed, has size 0 and names a price d does not hold.
ZeroForAbsent(entries, d) ==
    \A i \in DOMAIN entries :
        /\ WellFormed(entries[i])
        /\ FloatOf[entries[i][2]] = 0
        /\ FloatOf[entries[i][1]] \notin DOMAIN d

\* C11: get_sorted_bids returns exactly the levels of the bid mapping in
\* strictly descending price order, get_sorted_asks exactly the levels of the
\* ask mapping in strictly ascending price order.
C11_SortedViews ==
    LET exact(view, d) ==
            /\ Len(view) = Cardinality(DOMAIN d)
            /\ {view[i][1] : i \in DOMAIN view} = DOMAIN d
            /\ \A i \in DOMAIN view : view[i][2] = d[view[i][1]]
        vb == get_sorted_bids(bids)
        va == get_sorted_asks(asks)
    IN  /\ exact(vb, bids)
        /\ exact(va, asks)
        /\ \A i \in 1..(Len(vb) - 1) : vb[i][1] > vb[i + 1][1]
        /\ \A i \in 1..(Len(va) - 1) : va[i][1] < va[i + 1][1]

\* Both sides hold levels at 100 and 101.
C11_Witness ==
    /\ DOMAIN bids = {1000, 1010}
    /\ DOMAIN asks = {1000, 1010}
    /\ get_sorted_bids(bids)[1][1] = 1010
    /\ get_sorted_asks(asks)[1][1] = 1000

\* C12: an entry with an unparseable price or size lets no fault out of
\* update: the feed task never ends by it.
C12_MalformedTickTolerated == feed_task = "running"

\* C13: an update whose entries have size 0 and name prices their side does
\* not hold raises nothing, creates no entry and leaves both sides unchanged.
C13_ZeroForAbsentIsNoOp ==
    (/\ upd_calls >= 1
     /\ Len(upd_data.bids) + Len(upd_data.asks) >= 1
     /\ ZeroForAbsent(upd_data.bids, upd_bids)
     /\ ZeroForAbsent(upd_data.asks, upd_asks)) =>
        /\ ~upd_raised
        /\ bids = upd_bids
        /\ asks = upd_asks

\* A bid of size 0 at 100 applied to a book with a bid at 101 only.
C13_Witness ==
    /\ upd_calls = 1
    /\ upd_data = [bids |-> << <<"100", "0">> >>, asks |-> <<>>]
    /\ upd_bids = (1010 :> 1)
    /\ bids = (1010 :> 1)
    /\ ~upd_raised

\* C14: applying the same message a second time leaves the book as the
\* first application left it.
C14_UpdateIdempotent ==
    upd_calls = 2 => (bids = upd_bids /\ asks = upd_asks)

\* The same two bid entries at 100 and an ask at 101, applied twice.
C14_Witness ==
    /\ upd_calls = 2
    /\ upd_data = [bids |-> << <<"100", "0.1">>, <<"100", "0.2">> >>,
                   asks |-> << <<"101", "0.1">> >>]
    /\ bids[1000] = 2
    /\ asks[1010] = 1

\* C15: in either direction the fee of a report is total_cost times the rate
\* the simulator was constructed with.
C15_FeeIsCostTimesRate ==
    (Called /\ Returned) =>
        result.fee[1] * taker_fee_rate[2] =
            result.total_cost * taker_fee_rate[1] * result.fee[2]

\* A sell of 0.3 for 30.20 at the rate 0.001 pays 0.0302.
C15_Witness ==
    /\ Returned /\ ~result.is_buy
    /\ taker_fee_rate = <<1, 1000>>
    /\ result.total_cost = 3020
    /\ result.fee = <<151, 50>>

\* C16: every message the feed task receives is applied to the book (the
\* receive and the application are one step of the task, so a message is
\* applied in that step or never).
C16_ReceivedIsApplied == ~unapplied

\* C17: for a book of positive sizes and Q > 0, executed_quantity +
\* remaining_quantity = Q with 0 <= remaining_quantity <= Q, executed_quantity
\* = min(Q, total size of the needed side), and remaining_quantity > 0 only
\* if every level of the needed side was consumed in full.
C17_FillConserved ==
    LET total == SumSizes(NeededSide, DOMAIN NeededSide)
    IN  (Called /\ result.quantity > 0 /\ AllPositive(NeededSide)) =>
            /\ Returned
            /\ result.executed_quantity + result.remaining_quantity = result.quantity
            /\ result.remaining_quantity >= 0
            /\ result.remaining_quantity <= result.quantity
            /\ result.executed_quantity =
                 (IF result.quantity <= total THEN result.quantity ELSE total)
            /\ (result.remaining_quantity > 0 =>
                  \A p \in DOMAIN NeededSide :
                      Consumed(NeededSide, p, result.quantity, result.is_buy) = NeededSide[p])

\* Bids {100: 0.1, 101: 0.2}, sell 0.4: executed 0.3, remaining 0.1.
C17_Witness ==
    /\ Returned /\ ~result.is_buy /\ result.quantity = 4
    /\ pre_bids = (1000 :> 1) @@ (1010 :> 2)
    /\ result.executed_quantity = 3
    /\ result.remaining_quantity = 1

\* C18: for a book of positive prices and sizes and Q > 0 with
\* executed_quantity > 0, average_price lies between the lowest and the
\* highest consumed price; a buy's average_price is >= the best ask and its
\* slippage >= 0, and 0 exactly when the whole fill came from the best ask
\* level; a sell's average_price is <= the best bid.
C18_AveragePriceBounds ==
    LET d == NeededSide
        used == {p \in DOMAIN d : Consumed(d, p, result.quantity, result.is_buy) > 0}
        avg == result.average_price
        best == BestPrice(d, result.is_buy)
    IN  (/\ Called /\ Returned /\ result.quantity > 0 /\ result.executed_quantity > 0
         /\ AllPositive(d) /\ \A p \in DOMAIN d : p > 0) =>
            /\ \A p \in used : (\A x \in used : p <= x) => p * avg[2] <= avg[1]
            /\ \A p \in used : (\A x \in used : p >= x) => avg[1] <= p * avg[2]
            /\ result.is_buy =>
                 /\ avg[1] >= best * avg[2]
                 /\ result.slippage[1] >= 0
                 /\ (result.slippage[1] = 0 <=> used = {best})
            /\ ~result.is_buy => avg[1] <= best * avg[2]

\* Asks {100: 0.1, 101: 0.2}, buy 0.2: average 100.5, slippage 0.5.
C18_Witness ==
    /\ Returned /\ result.is_buy /\ result.quantity = 2
    /\ pre_asks = (1000 :> 1) @@ (1010 :> 2)
    /\ result.average_price = <<1005, 1>>
    /\ result.slippage = <<5, 1>>

\* C19: an update changes only the levels it names: a level at a price the
\* bids list does not name is retained unchanged in the bid mapping, and
\* likewise for the asks list and the ask mapping, so neither list alters
\* the other side.
C19_UpdateFrame ==
    upd_calls >= 1 =>
        /\ \A p \in (DOMAIN bids) \cup (DOMAIN upd_bids) :
              p \notin Named(upd_data.bids) => Level(bids, p) = Level(upd_bids, p)
        /\ \A p \in (DOMAIN asks) \cup (DOMAIN upd_asks) :
              p \notin Named(upd_data.asks) => Level(asks, p) = Level(upd_asks, p)

\* A bid at 100 replaced while the bid at 101 and the asks stay.
C19_Witness ==
    /\ upd_calls = 1
    /\ upd_data = [bids |-> << <<"100", "0.2">> >>, asks |-> <<>>]
    /\ upd_bids = (1000 :> 1) @@ (1010 :> 1)
    /\ bids = (1000 :> 2) @@ (1010 :> 1)
    /\ asks = upd_asks
    /\ asks # EmptyDict
====
